---- MODULE Spec2Model ----
(***************************************************************************)
(* Pool / session registry and broadcast engine of infisk8-server          *)
(* (manager/pool.go) with the join handler of the HTTP layer.              *)
(*                                                                         *)
(* Objects live on two heaps: poolObjs (the *Pool values) and sessObjs     *)
(* (the *Session values); a handle is an index into its heap, so two       *)
(* objects registered under the same name or id stay distinguishable.      *)
(***************************************************************************)
EXTENDS Naturals, Integers, Sequences, FiniteSets, TLC

VARIABLES
    pools,        \* Manager.pools: pool name -> pool handle
    poolObjs,     \* heap of Pool objects: [sessions: id -> session handle]
    sessObjs,     \* heap of Session objects: [Pool, ID, open, dc, pc]
    sessionGauge, \* the infisk8_sessions gauge
    poolGauge,    \* the infisk8_pools gauge
    crashed,      \* the process died of an unrecovered panic / runtime fatal error
    last,         \* the operation performed by the latest step, with its result
    tasks,        \* the join requests in flight, one record per request task
    bcast         \* the Session.OnMessage call in flight, send by send

vars == <<pools, poolObjs, sessObjs, sessionGauge, poolGauge, crashed, last, tasks, bcast>>

\* ---------------------------------------------------------------- universe
PoolNames == {"test", "room1"}
IDs == {"A", "B"}
\* the sender ids Pool.Broadcast is called with: those of sessions, and one of none
CallerIDs == IDs \cup {"C"}
Labels == {"chat", "ctl"}
ConnStates == {"connected", "disconnected", "failed", "closed"}
TerminalStates == {"failed", "disconnected", "closed"}
\* what the decoding of the request body and the transport can do to one join
JoinOutcomes == {"ok", "badBase64", "pcFail", "badOffer", "answerFail"}

MaxSessions == 2   \* Session objects ever constructed
NumTasks == 2      \* join requests in flight at once

NoErr == "nil"

\* ---------------------------------------------------------------- helpers
EmptyMap == [x \in {} |-> 0]

MapPut(m, k, v) == [x \in (DOMAIN m) \cup {k} |-> IF x = k THEN v ELSE m[x]]

MapDelete(m, k) == [x \in (DOMAIN m) \ {k} |-> m[x]]

MapLen(m) == Cardinality(DOMAIN m)

\* the (key, value) pairs a range loop over m visits
MapEntries(m) == {<<k, m[k]>> : k \in DOMAIN m}

\* every order in which a range loop may visit the set S
Orders(S) == {o \in [1..Cardinality(S) -> S] : \A i, j \in 1..Cardinality(S) : o[i] = o[j] => i = j}

NoOp == [op |-> "none", name |-> "", pool |-> 0, id |-> "", label |-> "",
         obj |-> 0, err |-> NoErr, sends |-> <<>>, panicked |-> FALSE, names |-> {}]

Tasks == 1..NumTasks

\* a request task that has not started: its locals are unset
IdleTask == [pc |-> "idle", op |-> "", name |-> "", pool |-> 0, id |-> "", outcome |-> "", obj |-> 0,
             snap |-> EmptyMap, raced |-> FALSE, n |-> 0, ps |-> <<>>, err |-> NoErr]

\* no OnMessage call in flight
IdleBcast == [pc |-> "idle", obj |-> 0, pool |-> 0, cid |-> "", label |-> "", order |-> <<>>, i |-> 0,
              sent |-> {}, skipped |-> {}, blocked |-> 0]

PoolHandles == 1..Len(poolObjs)
SessHandles == 1..Len(sessObjs)

\* ---------------------------------------------------------------- Manager
\* NewManager: an empty pool map, then m.NewPool("test")
Init ==
    /\ pools = [n \in {"test"} |-> 1]
    /\ poolObjs = <<[sessions |-> EmptyMap]>>
    /\ sessObjs = <<>>
    /\ sessionGauge = 0
    /\ poolGauge = 1
    /\ crashed = FALSE
    /\ last = NoOp
    /\ tasks = [t \in Tasks |-> IdleTask]
    /\ bcast = IdleBcast

ManagerPool_Fallback(name) ==
    IF name \in DOMAIN pools
    THEN [err |-> NoErr, p |-> pools[name]]
    ELSE [err |-> NoErr, p |-> pools["test"]]

\* Manager.Pool(name): the registered pool, or an error
ManagerPool(name) ==
    IF name \in DOMAIN pools
    THEN [err |-> NoErr, p |-> pools[name]]
    ELSE [err |-> "NotFound", p |-> 0]

\* Manager.Pools(): the names of the registered pools
ManagerPools == DOMAIN pools

ManagerNewPool_Overwrite(name) ==
    LET objs == Append(poolObjs, [sessions |-> EmptyMap])
        m == MapPut(pools, name, Len(objs))
    IN [err |-> NoErr, pools |-> m, poolObjs |-> objs, poolGauge |-> MapLen(m)]

\* Manager.NewPool(name): result and the new pool map, pool heap and gauge
ManagerNewPool(name) ==
    IF name \in DOMAIN pools
    THEN [err |-> "DuplicateName", pools |-> pools, poolObjs |-> poolObjs, poolGauge |-> poolGauge]
    ELSE LET objs == Append(poolObjs, [sessions |-> EmptyMap])
             m == MapPut(pools, name, Len(objs))
         IN [err |-> NoErr, pools |-> m, poolObjs |-> objs, poolGauge |-> MapLen(m)]

\* ---------------------------------------------------------------- Session
\* NewSession(pool, id): the Session it constructs (open is the zero value)
NewSessionObj(p, id) == [Pool |-> p, ID |-> id, open |-> FALSE, dc |-> {}, pc |-> "new"]

\* Session.Connect: SetRemoteDescription rejects the offer, or CreateAnswer fails
SessionConnect(outcome) ==
    IF outcome = "badOffer" THEN "BadOffer"
    ELSE IF outcome = "answerFail" THEN "TransportFailure"
    ELSE NoErr

\* Session.OnDataChannel: p.dc[d.Label()] = d
SessionOnDataChannel(s, label) == [sessObjs EXCEPT ![s].dc = @ \cup {label}]

SessionOnOpen_Toggle(s) == [sessObjs EXCEPT ![s].open = ~@]

\* Session.OnOpen: p.open = true
SessionOnOpen(s) == [sessObjs EXCEPT ![s].open = TRUE]

\* ---------------------------------------------------------------- Pool
Unchanged(err) ==
    [err |-> err, obj |-> 0, poolObjs |-> poolObjs, sessObjs |-> sessObjs, sessionGauge |-> sessionGauge]

PoolNewSession_RejectDuplicate(p, id, outcome) ==
    IF outcome = "pcFail" THEN Unchanged("TransportFailure")
    ELSE IF id \in DOMAIN poolObjs[p].sessions THEN Unchanged("DuplicateName")
    ELSE LET s == Len(sessObjs) + 1
             m == MapPut(poolObjs[p].sessions, id, s)
             err == SessionConnect(outcome)
             obj == [NewSessionObj(p, id) EXCEPT !.pc = IF err = NoErr THEN "answered" ELSE "new"]
         IN [err |-> err, obj |-> s,
             poolObjs |-> [poolObjs EXCEPT ![p].sessions = m],
             sessObjs |-> Append(sessObjs, obj),
             sessionGauge |-> MapLen(m)]

\* Pool.NewSession(sd, id): construct, register, set the gauge, then Connect
PoolNewSession(p, id, outcome) ==
    IF outcome = "pcFail" THEN Unchanged("TransportFailure")
    ELSE LET s == Len(sessObjs) + 1
             m == MapPut(poolObjs[p].sessions, id, s)
             err == SessionConnect(outcome)
             obj == [NewSessionObj(p, id) EXCEPT !.pc = IF err = NoErr THEN "answered" ELSE "new"]
         IN [err |-> err, obj |-> s,
             poolObjs |-> [poolObjs EXCEPT ![p].sessions = m],
             sessObjs |-> Append(sessObjs, obj),
             sessionGauge |-> MapLen(m)]

PoolCloseSession_DeleteFirst(p, id, closeFails) ==
    IF id \notin DOMAIN poolObjs[p].sessions THEN Unchanged("NotFound")
    ELSE LET s == poolObjs[p].sessions[id]
             m == MapDelete(poolObjs[p].sessions, id)
         IN [err |-> IF closeFails THEN "TransportFailure" ELSE NoErr, obj |-> s,
             poolObjs |-> [poolObjs EXCEPT ![p].sessions = m],
             sessObjs |-> IF closeFails THEN sessObjs ELSE [sessObjs EXCEPT ![s].pc = "closed"],
             sessionGauge |-> MapLen(m)]

PoolCloseSession_NoDelete(p, id, closeFails) ==
    IF id \notin DOMAIN poolObjs[p].sessions THEN Unchanged("NotFound")
    ELSE IF closeFails THEN Unchanged("TransportFailure")
    ELSE LET s == poolObjs[p].sessions[id]
         IN [err |-> NoErr, obj |-> s, poolObjs |-> poolObjs,
             sessObjs |-> [sessObjs EXCEPT ![s].pc = "closed"],
             sessionGauge |-> MapLen(poolObjs[p].sessions)]

\* Pool.CloseSession(id): look up, close the transport, delete, set the gauge
PoolCloseSession(p, id, closeFails) ==
    IF id \notin DOMAIN poolObjs[p].sessions THEN Unchanged("NotFound")
    ELSE IF closeFails THEN Unchanged("TransportFailure")
    ELSE LET s == poolObjs[p].sessions[id]
             m == MapDelete(poolObjs[p].sessions, id)
         IN [err |-> NoErr, obj |-> s,
             poolObjs |-> [poolObjs EXCEPT ![p].sessions = m],
             sessObjs |-> [sessObjs EXCEPT ![s].pc = "closed"],
             sessionGauge |-> MapLen(m)]

BroadcastRange_AllPools(p) == UNION {MapEntries(poolObjs[q].sessions) : q \in PoolHandles}

\* the map Pool.Broadcast ranges over
BroadcastRange(p) == MapEntries(poolObjs[p].sessions)

SkipNotOpen_Never(s) == FALSE

\* if !s.open { continue }
SkipNotOpen(s) == ~sessObjs[s].open

SkipSelf_Never(id, cid) == FALSE

\* if id == cid { continue }
SkipSelf(id, cid) == id = cid

\* s.dc[label]: whether the map holds a channel (a missing key yields a nil pointer)
HasChannel(s, label) == label \in sessObjs[s].dc

RECURSIVE BroadcastLoop_StopOnError(_, _, _, _, _, _)
BroadcastLoop_StopOnError(order, i, cid, label, fails, acc) ==
    IF i > Len(order) THEN [sends |-> acc, panicked |-> FALSE]
    ELSE LET id == order[i][1]
             s == order[i][2]
         IN IF ~sessObjs[s].open THEN BroadcastLoop_StopOnError(order, i + 1, cid, label, fails, acc)
            ELSE IF id = cid THEN BroadcastLoop_StopOnError(order, i + 1, cid, label, fails, acc)
            ELSE IF label \notin sessObjs[s].dc THEN [sends |-> acc, panicked |-> TRUE]
            ELSE IF s \in fails
                 THEN [sends |-> Append(acc, [to |-> s, label |-> label, ok |-> FALSE]), panicked |-> FALSE]
            ELSE BroadcastLoop_StopOnError(order, i + 1, cid, label, fails,
                                           Append(acc, [to |-> s, label |-> label, ok |-> TRUE]))

\* the loop of Pool.Broadcast over the entries in the order `order`; Send on the
\* nil channel of a session without the label panics and ends the loop
RECURSIVE BroadcastLoop(_, _, _, _, _, _)
BroadcastLoop(order, i, cid, label, fails, acc) ==
    IF i > Len(order) THEN [sends |-> acc, panicked |-> FALSE]
    ELSE LET id == order[i][1]
             s == order[i][2]
         IN IF SkipNotOpen(s) THEN BroadcastLoop(order, i + 1, cid, label, fails, acc)
            ELSE IF SkipSelf(id, cid) THEN BroadcastLoop(order, i + 1, cid, label, fails, acc)
            ELSE IF ~HasChannel(s, label) THEN [sends |-> acc, panicked |-> TRUE]
            ELSE BroadcastLoop(order, i + 1, cid, label, fails,
                               Append(acc, [to |-> s, label |-> label, ok |-> s \notin fails]))

\* Pool.Broadcast(cid, label, data)
PoolBroadcast(order, cid, label, fails) == BroadcastLoop(order, 1, cid, label, fails, <<>>)

\* ---------------------------------------------------------------- actions
Quiet == UNCHANGED <<tasks, bcast>>

\* PUT /pool/:pool
HandleCreate(name) ==
    /\ ~crashed
    /\ LET r == ManagerNewPool(name)
       IN /\ pools' = r.pools
          /\ poolObjs' = r.poolObjs
          /\ poolGauge' = r.poolGauge
          /\ last' = [NoOp EXCEPT !.op = "NewPool", !.name = name, !.err = r.err,
                                  !.pool = IF r.err = NoErr THEN r.pools[name] ELSE 0]
    /\ UNCHANGED <<sessObjs, sessionGauge, crashed>>
    /\ Quiet

\* GET /pools
HandlePools ==
    /\ ~crashed
    /\ last' = [NoOp EXCEPT !.op = "Pools", !.names = ManagerPools]
    /\ UNCHANGED <<pools, poolObjs, sessObjs, sessionGauge, poolGauge, crashed>>
    /\ Quiet

\* POST /pool/:pool/join/:id
HandleJoin(name, id, outcome) ==
    /\ ~crashed
    /\ LET r == ManagerPool(name)
       IN IF r.err # NoErr
          THEN /\ last' = [NoOp EXCEPT !.op = "HandleJoin", !.name = name, !.err = r.err]
               /\ UNCHANGED <<poolObjs, sessObjs, sessionGauge>>
          ELSE IF outcome = "badBase64"
          THEN /\ last' = [NoOp EXCEPT !.op = "HandleJoin", !.name = name, !.err = "BadInput"]
               /\ UNCHANGED <<poolObjs, sessObjs, sessionGauge>>
          ELSE /\ outcome = "pcFail" \/ Len(sessObjs) < MaxSessions
               /\ LET n == PoolNewSession(r.p, id, outcome)
                  IN /\ poolObjs' = n.poolObjs
                     /\ sessObjs' = n.sessObjs
                     /\ sessionGauge' = n.sessionGauge
                     /\ last' = [NoOp EXCEPT !.op = "HandleJoin", !.name = name, !.id = id,
                                             !.pool = r.p, !.obj = n.obj, !.err = n.err]
    /\ UNCHANGED <<pools, poolGauge, crashed>>
    /\ Quiet

\* Pool.CloseSession called directly (an operator action)
CloseSession(p, id, closeFails) ==
    /\ ~crashed
    /\ p \in PoolHandles
    /\ LET r == PoolCloseSession(p, id, closeFails)
       IN /\ poolObjs' = r.poolObjs
          /\ sessObjs' = r.sessObjs
          /\ sessionGauge' = r.sessionGauge
          /\ last' = [NoOp EXCEPT !.op = "CloseSession", !.pool = p, !.id = id,
                                  !.obj = r.obj, !.err = r.err]
    /\ UNCHANGED <<pools, poolGauge, crashed>>
    /\ Quiet

\* Session.OnConnectionStateChange: a terminal state closes the session of that id
OnConnectionStateChange(s, state, closeFails) ==
    /\ ~crashed
    /\ s \in SessHandles
    /\ IF state \in TerminalStates
       THEN LET r == PoolCloseSession(sessObjs[s].Pool, sessObjs[s].ID, closeFails)
            IN /\ poolObjs' = r.poolObjs
               /\ sessObjs' = r.sessObjs
               /\ sessionGauge' = r.sessionGauge
               /\ last' = [NoOp EXCEPT !.op = "OnConnectionStateChange", !.pool = sessObjs[s].Pool,
                                       !.id = sessObjs[s].ID, !.obj = s, !.err = r.err]
       ELSE /\ last' = [NoOp EXCEPT !.op = "OnConnectionStateChange", !.obj = s]
            /\ UNCHANGED <<poolObjs, sessObjs, sessionGauge>>
    /\ UNCHANGED <<pools, poolGauge, crashed>>
    /\ Quiet

\* the transport announces a data channel of the remote side
OnDataChannel(s, label) ==
    /\ ~crashed
    /\ s \in SessHandles
    /\ sessObjs[s].pc = "answered"
    /\ sessObjs' = SessionOnDataChannel(s, label)
    /\ last' = [NoOp EXCEPT !.op = "OnDataChannel", !.obj = s, !.label = label]
    /\ UNCHANGED <<pools, poolObjs, sessionGauge, poolGauge, crashed>>
    /\ Quiet

\* a recorded data channel fires its open event
OnOpen(s) ==
    /\ ~crashed
    /\ s \in SessHandles
    /\ sessObjs[s].pc = "answered"
    /\ sessObjs[s].dc # {}
    /\ sessObjs' = SessionOnOpen(s)
    /\ last' = [NoOp EXCEPT !.op = "OnOpen", !.obj = s]
    /\ UNCHANGED <<pools, poolObjs, sessionGauge, poolGauge, crashed>>
    /\ Quiet

\* Session.OnMessage: a message arrives on the channel `label` of session s
OnMessage(s, label) ==
    /\ ~crashed
    /\ s \in SessHandles
    /\ sessObjs[s].pc = "answered"
    /\ label \in sessObjs[s].dc
    /\ \E order \in Orders(BroadcastRange(sessObjs[s].Pool)), fails \in SUBSET SessHandles :
          LET r == PoolBroadcast(order, sessObjs[s].ID, label, fails)
          IN /\ crashed' = r.panicked
             /\ last' = [NoOp EXCEPT !.op = "OnMessage", !.pool = sessObjs[s].Pool,
                                     !.id = sessObjs[s].ID, !.label = label, !.obj = s,
                                     !.sends = r.sends, !.panicked = r.panicked]
    /\ UNCHANGED <<pools, poolObjs, sessObjs, sessionGauge, poolGauge>>
    /\ Quiet

\* Pool.Broadcast called with the sender id cid
Broadcast(p, cid, label) ==
    /\ ~crashed
    /\ p \in PoolHandles
    /\ \E order \in Orders(BroadcastRange(p)), fails \in SUBSET SessHandles :
          LET r == PoolBroadcast(order, cid, label, fails)
          IN /\ crashed' = r.panicked
             /\ last' = [NoOp EXCEPT !.op = "Broadcast", !.pool = p, !.id = cid, !.label = label,
                                     !.sends = r.sends, !.panicked = r.panicked]
    /\ UNCHANGED <<pools, poolObjs, sessObjs, sessionGauge, poolGauge>>
    /\ Quiet

Next ==
    \/ \E name \in PoolNames : HandleCreate(name)
    \/ HandlePools
    \/ \E name \in PoolNames, id \in IDs, outcome \in JoinOutcomes : HandleJoin(name, id, outcome)
    \/ \E p \in PoolHandles, id \in IDs, closeFails \in BOOLEAN : CloseSession(p, id, closeFails)
    \/ \E s \in SessHandles, state \in ConnStates, closeFails \in BOOLEAN :
          OnConnectionStateChange(s, state, closeFails)
    \/ \E s \in SessHandles, label \in Labels : OnDataChannel(s, label)
    \/ \E s \in SessHandles : OnOpen(s)
    \/ \E s \in SessHandles, label \in Labels : OnMessage(s, label)
    \/ \E p \in PoolHandles, cid \in CallerIDs, label \in Labels : Broadcast(p, cid, label)

Spec == Init /\ [][Next]_vars

\* ---------------------------------------------------------------- interleaved joins
\* POST /pool/:pool/join/:id handled by request tasks that run concurrently: every
\* access of Pool.NewSession to the shared session map and gauge is a step of its own,
\* since the code takes no lock.
Frame == UNCHANGED <<pools, poolGauge, last, bcast>>

\* the other tasks that are inside the map assignment of the same pool
Writers(t) == {u \in Tasks \ {t} : tasks[u].pc = "assigning" /\ tasks[u].pool = tasks[t].pool}

\* HandleJoin up to NewSession(r, id): pool lookup, body decoding, construction
JoinStart(t, name, id, outcome) ==
    /\ ~crashed
    /\ tasks[t].pc = "idle"
    /\ LET r == ManagerPool(name)
           err == IF r.err # NoErr THEN r.err
                  ELSE IF outcome = "badBase64" THEN "BadInput"
                  ELSE IF outcome = "pcFail" THEN "TransportFailure"
                  ELSE NoErr
       IN IF err # NoErr
          THEN /\ tasks' = [tasks EXCEPT ![t] = [IdleTask EXCEPT !.pc = "done", !.op = "HandleJoin", !.id = id,
                                                 !.outcome = outcome, !.err = err]]
               /\ UNCHANGED sessObjs
          ELSE /\ Len(sessObjs) < MaxSessions
               /\ sessObjs' = Append(sessObjs, NewSessionObj(r.p, id))
               /\ tasks' = [tasks EXCEPT ![t] = [IdleTask EXCEPT !.pc = "assign", !.op = "HandleJoin", !.pool = r.p, !.id = id,
                                                 !.outcome = outcome, !.obj = Len(sessObjs) + 1]]
    /\ UNCHANGED <<poolObjs, sessionGauge, crashed>>
    /\ Frame

\* (*r.sessions)[id] = session begins: the map as this writer finds it; writers
\* that overlap race on the map
JoinAssignBegin(t) ==
    /\ ~crashed
    /\ tasks[t].pc = "assign"
    /\ tasks' = [u \in Tasks |->
                    IF u = t THEN [tasks[t] EXCEPT !.pc = "assigning",
                                                   !.snap = poolObjs[tasks[t].pool].sessions,
                                                   !.raced = Writers(t) # {}]
                    ELSE IF u \in Writers(t) THEN [tasks[u] EXCEPT !.raced = TRUE]
                    ELSE tasks[u]]
    /\ UNCHANGED <<poolObjs, sessObjs, sessionGauge, crashed>>
    /\ Frame

\* what an assignment can leave in the map: the entry added to the current map, or,
\* for a writer that raced, to the map it found when it began (the other write is lost)
AssignResults(t) ==
    {MapPut(poolObjs[tasks[t].pool].sessions, tasks[t].id, tasks[t].obj)}
        \cup (IF tasks[t].raced THEN {MapPut(tasks[t].snap, tasks[t].id, tasks[t].obj)} ELSE {})

\* (*r.sessions)[id] = session ends
JoinAssignEnd(t) ==
    /\ ~crashed
    /\ tasks[t].pc = "assigning"
    /\ \E m \in AssignResults(t) :
          poolObjs' = [poolObjs EXCEPT ![tasks[t].pool].sessions = m]
    /\ tasks' = [tasks EXCEPT ![t].pc = "len"]
    /\ UNCHANGED <<sessObjs, sessionGauge, crashed>>
    /\ Frame

\* the runtime detects the concurrent map writes and ends the process
JoinAssignFatal(t) ==
    /\ ~crashed
    /\ tasks[t].pc = "assigning"
    /\ tasks[t].raced
    /\ crashed' = TRUE
    /\ UNCHANGED <<poolObjs, sessObjs, sessionGauge, tasks>>
    /\ Frame

\* len(*r.sessions), the argument of sessionGauge.Set
JoinLen(t) ==
    /\ ~crashed
    /\ tasks[t].pc = "len"
    /\ tasks' = [tasks EXCEPT ![t].pc = "gauge", ![t].n = MapLen(poolObjs[tasks[t].pool].sessions)]
    /\ UNCHANGED <<poolObjs, sessObjs, sessionGauge, crashed>>
    /\ Frame

\* sessionGauge.Set
JoinGauge(t) ==
    /\ ~crashed
    /\ tasks[t].pc = "gauge"
    /\ sessionGauge' = tasks[t].n
    /\ tasks' = [tasks EXCEPT ![t].pc = "connect"]
    /\ UNCHANGED <<poolObjs, sessObjs, crashed>>
    /\ Frame

\* return session.Connect(sd)
JoinConnect(t) ==
    /\ ~crashed
    /\ tasks[t].pc = "connect"
    /\ LET err == SessionConnect(tasks[t].outcome)
       IN /\ tasks' = [tasks EXCEPT ![t].pc = "done", ![t].err = err]
          /\ sessObjs' = [sessObjs EXCEPT ![tasks[t].obj].pc = IF err = NoErr THEN "answered" ELSE "new"]
    /\ UNCHANGED <<poolObjs, sessionGauge, crashed>>
    /\ Frame

\* ---------------------------------------------------------------- interleaved pool requests
\* PUT /pool/:pool and GET /pools handled by request tasks that run concurrently with
\* each other and with the joins: every access to the shared pool map is a step.
FramePools == UNCHANGED <<sessObjs, sessionGauge, last, bcast>>

\* the tasks that are inside the assignment to the pool map
PoolWriting == {u \in Tasks : tasks[u].pc = "passigning"}

\* Manager.NewPool up to the assignment: the lookup, then the Pool is constructed
PoolStart(t, name) ==
    /\ ~crashed
    /\ tasks[t].pc = "idle"
    /\ IF name \in DOMAIN pools
       THEN /\ tasks' = [tasks EXCEPT ![t] = [IdleTask EXCEPT !.pc = "done", !.op = "NewPool",
                                              !.name = name, !.err = "DuplicateName"]]
            /\ UNCHANGED poolObjs
       ELSE /\ poolObjs' = Append(poolObjs, [sessions |-> EmptyMap])
            /\ tasks' = [tasks EXCEPT ![t] = [IdleTask EXCEPT !.pc = "passign", !.op = "NewPool",
                                              !.name = name, !.pool = Len(poolObjs) + 1]]
    /\ UNCHANGED <<pools, poolGauge, crashed>>
    /\ FramePools

\* (*m.pools)[name] = p begins: the map as this writer finds it; writers that overlap race
PoolAssignBegin(t) ==
    /\ ~crashed
    /\ tasks[t].pc = "passign"
    /\ tasks' = [u \in Tasks |->
                    IF u = t THEN [tasks[t] EXCEPT !.pc = "passigning", !.snap = pools,
                                                   !.raced = PoolWriting # {}]
                    ELSE IF u \in PoolWriting THEN [tasks[u] EXCEPT !.raced = TRUE]
                    ELSE tasks[u]]
    /\ UNCHANGED <<pools, poolObjs, poolGauge, crashed>>
    /\ FramePools

\* what the assignment can leave in the pool map: the entry added to the current map,
\* or, for a writer that raced, to the map it found when it began
PoolAssignResults(t) ==
    {MapPut(pools, tasks[t].name, tasks[t].pool)}
        \cup (IF tasks[t].raced THEN {MapPut(tasks[t].snap, tasks[t].name, tasks[t].pool)} ELSE {})

\* (*m.pools)[name] = p ends
PoolAssignEnd(t) ==
    /\ ~crashed
    /\ tasks[t].pc = "passigning"
    /\ \E m \in PoolAssignResults(t) : pools' = m
    /\ tasks' = [tasks EXCEPT ![t].pc = "plen"]
    /\ UNCHANGED <<poolObjs, poolGauge, crashed>>
    /\ FramePools

\* the runtime detects the concurrent map writes and ends the process
PoolAssignFatal(t) ==
    /\ ~crashed
    /\ tasks[t].pc = "passigning"
    /\ tasks[t].raced
    /\ crashed' = TRUE
    /\ UNCHANGED <<pools, poolObjs, poolGauge, tasks>>
    /\ FramePools

\* poolGauge.Set(float64(len(*m.pools))); return p, nil
PoolGauge(t) ==
    /\ ~crashed
    /\ tasks[t].pc = "plen"
    /\ poolGauge' = MapLen(pools)
    /\ tasks' = [tasks EXCEPT ![t].pc = "done"]
    /\ UNCHANGED <<pools, poolObjs, crashed>>
    /\ FramePools

\* what len(*m.pools) can read: the count of the map, or, while an unsynchronised
\* assignment is in progress, the count that assignment is storing
LenSeen == {MapLen(pools)} \cup {MapLen(MapPut(pools, tasks[u].name, tasks[u].pool)) : u \in PoolWriting}

\* the keys a range over *m.pools can produce: those of the map, with or without the
\* key of an assignment in progress
KeysSeen == {DOMAIN pools} \cup {DOMAIN pools \cup {tasks[u].name} : u \in PoolWriting}

\* Manager.Pools: ps := make([]string, len(*m.pools))
PoolsLen(t) ==
    /\ ~crashed
    /\ tasks[t].pc = "idle"
    /\ \E n \in LenSeen :
          tasks' = [tasks EXCEPT ![t] = [IdleTask EXCEPT !.pc = "range", !.op = "Pools", !.snap = pools,
                                         !.n = n, !.ps = [i \in 1..n |-> ""]]]
    /\ UNCHANGED <<pools, poolObjs, poolGauge, crashed>>
    /\ FramePools

\* Manager.Pools: for n := range *m.pools { ps[i] = n; i++ }; return ps. An index
\* beyond the length panics; the panic ends the request, not the process.
PoolsRange(t) ==
    /\ ~crashed
    /\ tasks[t].pc = "range"
    /\ \E keys \in KeysSeen : \E order \in Orders(keys) :
          tasks' = [tasks EXCEPT ![t] =
                       IF Len(order) > tasks[t].n
                       THEN [tasks[t] EXCEPT !.pc = "done", !.ps = <<>>, !.err = "panic"]
                       ELSE [tasks[t] EXCEPT !.pc = "done",
                                             !.ps = [i \in 1..tasks[t].n |->
                                                        IF i <= Len(order) THEN order[i] ELSE ""]]]
    /\ UNCHANGED <<pools, poolObjs, poolGauge, crashed>>
    /\ FramePools

\* the runtime detects the map iteration concurrent with a map write and ends the process
PoolsRangeFatal(t) ==
    /\ ~crashed
    /\ tasks[t].pc = "range"
    /\ PoolWriting # {}
    /\ crashed' = TRUE
    /\ UNCHANGED <<pools, poolObjs, poolGauge, tasks>>
    /\ FramePools

NextConc ==
    \/ \E t \in Tasks, name \in PoolNames : PoolStart(t, name)
    \/ \E t \in Tasks : PoolAssignBegin(t)
    \/ \E t \in Tasks : PoolAssignEnd(t)
    \/ \E t \in Tasks : PoolAssignFatal(t)
    \/ \E t \in Tasks : PoolGauge(t)
    \/ \E t \in Tasks : PoolsLen(t)
    \/ \E t \in Tasks : PoolsRange(t)
    \/ \E t \in Tasks : PoolsRangeFatal(t)
    \/ \E t \in Tasks, name \in PoolNames, id \in IDs, outcome \in JoinOutcomes : JoinStart(t, name, id, outcome)
    \/ \E t \in Tasks : JoinAssignBegin(t)
    \/ \E t \in Tasks : JoinAssignEnd(t)
    \/ \E t \in Tasks : JoinAssignFatal(t)
    \/ \E t \in Tasks : JoinLen(t)
    \/ \E t \in Tasks : JoinGauge(t)
    \/ \E t \in Tasks : JoinConnect(t)

SpecConc == Init /\ [][NextConc]_vars

\* ---------------------------------------------------------------- a broadcast send by send
\* Session.OnMessage running in the transport's goroutine while requests and callbacks
\* go on: every iteration of the loop of Pool.Broadcast is a step, and Send may return
\* or never return.
FrameSend == UNCHANGED <<pools, poolObjs, sessObjs, sessionGauge, poolGauge, last, tasks>>

\* the entry the loop is at
BcastEntry == bcast.order[bcast.i]

\* the sender id the broadcast was called with
BcastCid == bcast.cid

\* Pool.Broadcast(cid, label, data) is entered: the range over *p.sessions begins
BroadcastBegin(p, cid, label, s) ==
    /\ ~crashed
    /\ bcast.pc \in {"idle", "returned"}
    /\ p \in PoolHandles
    /\ \E order \in Orders(BroadcastRange(p)) :
          bcast' = [IdleBcast EXCEPT !.pc = "loop", !.obj = s, !.pool = p, !.cid = cid,
                                     !.label = label, !.order = order, !.i = 1]
    /\ UNCHANGED crashed
    /\ FrameSend

\* Session.OnMessage calls p.Pool.Broadcast(p.ID, label, message.Data)
OnMessageBegin(s, label) ==
    /\ s \in SessHandles
    /\ sessObjs[s].pc = "answered"
    /\ label \in sessObjs[s].dc
    /\ BroadcastBegin(sessObjs[s].Pool, sessObjs[s].ID, label, s)

\* the loop is at an entry
BcastAtEntry == ~crashed /\ bcast.pc = "loop" /\ bcast.i <= Len(bcast.order)

\* if !s.open { continue }; if id == cid { continue }
BcastSkip ==
    /\ BcastAtEntry
    /\ SkipNotOpen(BcastEntry[2]) \/ SkipSelf(BcastEntry[1], BcastCid)
    /\ bcast' = [bcast EXCEPT !.i = @ + 1, !.skipped = @ \cup {BcastEntry[2]}]
    /\ UNCHANGED crashed
    /\ FrameSend

\* s.dc[label].Send(data) on the nil channel of a session without the label
BcastPanic ==
    /\ BcastAtEntry
    /\ ~SkipNotOpen(BcastEntry[2])
    /\ ~SkipSelf(BcastEntry[1], BcastCid)
    /\ ~HasChannel(BcastEntry[2], bcast.label)
    /\ bcast' = [bcast EXCEPT !.pc = "panicked"]
    /\ crashed' = TRUE
    /\ FrameSend

\* s.dc[label].Send(data) returns, with or without an error, and the loop goes on
BcastSend ==
    /\ BcastAtEntry
    /\ ~SkipNotOpen(BcastEntry[2])
    /\ ~SkipSelf(BcastEntry[1], BcastCid)
    /\ HasChannel(BcastEntry[2], bcast.label)
    /\ bcast' = [bcast EXCEPT !.i = @ + 1, !.sent = @ \cup {BcastEntry[2]}]
    /\ UNCHANGED crashed
    /\ FrameSend

\* s.dc[label].Send(data) never returns: the loop stays inside the call
BcastBlock ==
    /\ BcastAtEntry
    /\ ~SkipNotOpen(BcastEntry[2])
    /\ ~SkipSelf(BcastEntry[1], BcastCid)
    /\ HasChannel(BcastEntry[2], bcast.label)
    /\ bcast' = [bcast EXCEPT !.pc = "blocked", !.blocked = BcastEntry[2]]
    /\ UNCHANGED crashed
    /\ FrameSend

\* the range is exhausted: Broadcast returns, and with it the OnMessage that called it
OnMessageReturn ==
    /\ ~crashed
    /\ bcast.pc = "loop"
    /\ bcast.i > Len(bcast.order)
    /\ bcast' = [bcast EXCEPT !.pc = "returned"]
    /\ UNCHANGED crashed
    /\ FrameSend

\* the steps the goroutine that runs the broadcast takes on its own
BcastProgress == BcastSkip \/ BcastPanic \/ BcastSend \/ OnMessageReturn

NextSend ==
    \/ \E id \in IDs : HandleJoin("test", id, "ok")
    \/ \E s \in SessHandles, label \in Labels : OnDataChannel(s, label)
    \/ \E s \in SessHandles : OnOpen(s)
    \/ \E s \in SessHandles, label \in Labels : OnMessageBegin(s, label)
    \/ \E p \in PoolHandles, cid \in CallerIDs \ IDs, label \in Labels : BroadcastBegin(p, cid, label, 0)
    \/ BcastSkip
    \/ BcastPanic
    \/ BcastSend
    \/ BcastBlock
    \/ OnMessageReturn

\* the goroutine of the broadcast is scheduled as long as it can run
SpecSend == Init /\ [][NextSend]_vars /\ WF_vars(BcastProgress)

\* ---------------------------------------------------------------- properties
\* the sessions registered in pool p
Registered(p) == {poolObjs[p].sessions[id] : id \in DOMAIN poolObjs[p].sessions}

\* the sends of the latest broadcast that went to session s on channel label
SendsTo(s, label) == {i \in 1..Len(last.sends) : last.sends[i].to = s /\ last.sends[i].label = label}

\* C1: a broadcast whose sender id is that of a session performs no send to that
\* session: no send of the broadcast goes to a session whose ID is the sender id
C1_NoSelfDelivery ==
    last.op = "OnMessage" =>
        \A i \in 1..Len(last.sends) : sessObjs[last.sends[i].to].ID # last.id

\* a registered, open sender broadcast on a channel it holds and somebody was served
C1_Witness ==
    /\ last.op = "OnMessage"
    /\ last.id \in DOMAIN poolObjs[last.pool].sessions
    /\ poolObjs[last.pool].sessions[last.id] = last.obj
    /\ sessObjs[last.obj].open
    /\ Len(last.sends) >= 1

\* C2: no send of a broadcast goes to a session whose open flag is false
C2_NoSendToUnopened ==
    last.op = "OnMessage" =>
        \A i \in 1..Len(last.sends) : sessObjs[last.sends[i].to].open

\* a broadcast ran while another registered session of the pool held the channel
\* but had not fired its open event
C2_Witness ==
    /\ last.op = "OnMessage"
    /\ ~last.panicked
    /\ \E s \in Registered(last.pool) :
          /\ sessObjs[s].ID # last.id
          /\ ~sessObjs[s].open
          /\ last.label \in sessObjs[s].dc

\* C3: every send of a broadcast triggered by a session of pool P goes to a session
\* registered in P, and to none registered in another pool
C3_PoolIsolation ==
    last.op = "OnMessage" =>
        \A i \in 1..Len(last.sends) :
            /\ last.sends[i].to \in Registered(sessObjs[last.obj].Pool)
            /\ \A q \in PoolHandles \ {sessObjs[last.obj].Pool} : last.sends[i].to \notin Registered(q)

\* a broadcast ran in one pool while another pool held an open session with the
\* same channel label
C3_Witness ==
    /\ last.op = "OnMessage"
    /\ ~last.panicked
    /\ \E q \in PoolHandles \ {last.pool} : \E s \in Registered(q) :
          /\ sessObjs[s].open
          /\ last.label \in sessObjs[s].dc

\* C4: one inbound message is sent exactly once to every other registered, open
\* session of the pool that holds the channel, and the sender's call completes
C4_EachEligibleOnce ==
    last.op = "OnMessage" =>
        /\ ~last.panicked
        /\ \A s \in Registered(last.pool) :
              (sessObjs[s].ID # last.id /\ sessObjs[s].open /\ last.label \in sessObjs[s].dc)
                  => Cardinality(SendsTo(s, last.label)) = 1

\* C5: a Pool.NewSession that fails leaves the session registry as it was
C5_FailedJoinLeavesRegistry ==
    [][(last'.op = "HandleJoin" /\ last'.err \in {"BadOffer", "TransportFailure"})
          => poolObjs' = poolObjs]_vars

\* C6: CloseSession of an id that is not registered fails NotFound and changes
\* nothing, and after a CloseSession that succeeded the id is not registered
C6_CloseNotIdempotent ==
    [][last'.op = "CloseSession" =>
          /\ (last'.id \notin DOMAIN poolObjs[last'.pool].sessions) =>
                /\ last'.err = "NotFound"
                /\ poolObjs' = poolObjs
                /\ sessObjs' = sessObjs
                /\ sessionGauge' = sessionGauge
          /\ (last'.err = NoErr) => last'.id \notin DOMAIN poolObjs'[last'.pool].sessions]_vars

\* the only session ever joined under the id was closed, and a second close failed
C6_Witness ==
    /\ last.op = "CloseSession"
    /\ last.err = "NotFound"
    /\ \E s \in SessHandles :
          /\ sessObjs[s].Pool = last.pool
          /\ sessObjs[s].ID = last.id
          /\ sessObjs[s].pc = "closed"
          /\ \A o \in SessHandles \ {s} : ~(sessObjs[o].Pool = last.pool /\ sessObjs[o].ID = last.id)

\* C7: the session gauge equals the number of sessions registered in all pools
C7_GaugeCountsAllSessions ==
    sessionGauge = Cardinality(UNION {Registered(p) : p \in PoolHandles})

\* C8: NewPool of a registered name fails DuplicateName and leaves the pool map,
\* the pool object and its session registry as they were
C8_DuplicatePoolRejected ==
    [][(last'.op = "NewPool" /\ last'.name \in DOMAIN pools) =>
          /\ last'.err = "DuplicateName"
          /\ pools' = pools
          /\ poolObjs' = poolObjs
          /\ poolGauge' = poolGauge]_vars

\* a duplicate NewPool was refused for a pool that holds sessions
C8_Witness ==
    /\ last.op = "NewPool"
    /\ last.err = "DuplicateName"
    /\ Registered(pools[last.name]) # {}

\* C9: a join naming a pool that is not registered fails NotFound, constructs no
\* session, registers none and leaves the session gauge alone
C9_JoinUnknownPool ==
    [][(last'.op = "HandleJoin" /\ last'.name \notin DOMAIN pools) =>
          /\ last'.err = "NotFound"
          /\ sessObjs' = sessObjs
          /\ poolObjs' = poolObjs
          /\ sessionGauge' = sessionGauge]_vars

\* a join of a pool that was never created was refused while sessions exist
C9_Witness ==
    /\ last.op = "HandleJoin"
    /\ last.err = "NotFound"
    /\ last.name \notin DOMAIN pools
    /\ sessObjs # <<>>

\* C10: join requests with distinct ids that run concurrently against the same pool
\* all succeed, and afterwards the registry holds exactly their sessions and the
\* session count is their number
C10_ConcurrentJoinsAllRegistered ==
    (/\ \A t \in Tasks : tasks[t].pc = "done" /\ tasks[t].outcome = "ok" /\ tasks[t].pool = pools["test"]
     /\ \A t, u \in Tasks : tasks[t].id = tasks[u].id => t = u)
    => /\ \A t \in Tasks : tasks[t].err = NoErr
       /\ poolObjs[pools["test"]].sessions = [id \in {tasks[t].id : t \in Tasks} |->
             tasks[CHOOSE t \in Tasks : tasks[t].id = id].obj]
       /\ sessionGauge = NumTasks

\* the sessions a sequence of sends went to, in order
Targets(sends) == [i \in 1..Len(sends) |-> sends[i].to]

\* C11: a broadcast in which sends failed serves the same recipients, in the same
\* order, as a run of the loop in which no send fails, and ends the same way: a
\* failed send neither stops the loop nor reaches the caller
C11_SendFailureIsolated ==
    last.op \in {"OnMessage", "Broadcast"} =>
        \E order \in Orders(BroadcastRange(last.pool)) :
            LET r == PoolBroadcast(order, last.id, last.label, {})
            IN /\ Targets(r.sends) = Targets(last.sends)
               /\ r.panicked = last.panicked

\* the first send of a broadcast failed and the next recipient was still served
C11_Witness ==
    /\ last.op = "Broadcast"
    /\ ~last.panicked
    /\ Len(last.sends) = 2
    /\ ~last.sends[1].ok
    /\ last.sends[2].ok

\* C12: a registered, open recipient other than the sender that has no channel of the
\* broadcast's label is skipped: no send goes to it, the broadcast does not crash and
\* the recipients that hold the channel are served
C12_MissingChannelSkipped ==
    last.op \in {"OnMessage", "Broadcast"} =>
        /\ ~last.panicked
        /\ \A i \in 1..Len(last.sends) : last.label \in sessObjs[last.sends[i].to].dc
        /\ \A id \in DOMAIN poolObjs[last.pool].sessions :
              LET s == poolObjs[last.pool].sessions[id]
              IN (id # last.id /\ sessObjs[s].open /\ last.label \in sessObjs[s].dc)
                    => s \in {last.sends[i].to : i \in 1..Len(last.sends)}

\* C13: after a terminal connection state was reported for a session, that session is
\* not in its pool's registry, and broadcasts only ever send to registered sessions
C13_TerminalStateRemoves ==
    /\ (last.op = "OnConnectionStateChange" /\ last.pool # 0) => last.obj \notin Registered(last.pool)
    /\ last.op \in {"OnMessage", "Broadcast"} =>
          \A i \in 1..Len(last.sends) : last.sends[i].to \in Registered(last.pool)

\* the sessions registered in any pool
AllRegistered == UNION {Registered(p) : p \in PoolHandles}

\* C17: a session is constructed with open false; open turns true only in the open
\* event of that session and never turns false; an open event of a session that is
\* open changes no session; a session that is not registered is never registered later
C17_OpenLifecycle ==
    [][/\ Len(sessObjs') >= Len(sessObjs)
       /\ \A s \in (Len(sessObjs) + 1)..Len(sessObjs') : ~sessObjs'[s].open
       /\ \A s \in SessHandles :
             /\ sessObjs[s].open => sessObjs'[s].open
             /\ (~sessObjs[s].open /\ sessObjs'[s].open) => (last'.op = "OnOpen" /\ last'.obj = s)
             /\ (sessObjs[s].open /\ last'.op = "OnOpen" /\ last'.obj = s) => sessObjs' = sessObjs
             /\ s \notin AllRegistered => s \notin UNION {Registered(p)' : p \in PoolHandles}]_vars

\* an open event arrived for a session that is open while another session that was
\* opened is closed and out of the registry
C17_Witness ==
    /\ last.op = "OnOpen"
    /\ sessObjs[last.obj].open
    /\ last.obj \in AllRegistered
    /\ \E s \in SessHandles : sessObjs[s].open /\ sessObjs[s].pc = "closed" /\ s \notin AllRegistered

\* C18: a join whose id is registered in the pool does not fail for the collision;
\* once the session is constructed the registry maps the id to the new session, holds
\* the same ids as before, the gauge is their number, and the session registered
\* before is left as it was (its transport is not closed)
C18_CollisionOverwrites ==
    [][(/\ last'.op = "HandleJoin"
        /\ last'.pool # 0
        /\ last'.id \in DOMAIN poolObjs[last'.pool].sessions)
       => /\ last'.err \in {NoErr, "BadOffer", "TransportFailure"}
          /\ last'.obj # 0 =>
                LET old == poolObjs[last'.pool].sessions[last'.id]
                IN /\ last'.obj = Len(sessObjs) + 1
                   /\ poolObjs'[last'.pool].sessions[last'.id] = last'.obj
                   /\ DOMAIN poolObjs'[last'.pool].sessions = DOMAIN poolObjs[last'.pool].sessions
                   /\ sessionGauge' = MapLen(poolObjs[last'.pool].sessions)
                   /\ sessObjs'[old] = sessObjs[old]]_vars

\* a join succeeded under an id whose earlier session is out of the registry with its
\* transport not closed
C18_Witness ==
    /\ last.op = "HandleJoin"
    /\ last.err = NoErr
    /\ poolObjs[last.pool].sessions[last.id] = last.obj
    /\ \E s \in SessHandles \ {last.obj} :
          /\ sessObjs[s].Pool = last.pool
          /\ sessObjs[s].ID = last.id
          /\ sessObjs[s].pc = "answered"
          /\ s \notin AllRegistered

\* C19: the connection-state callback of a session changes no other session object
\* (closes no other transport) and removes no other session from the registry
C19_TerminalClosesOnlySelf ==
    [][last'.op = "OnConnectionStateChange" =>
          \A s \in SessHandles \ {last'.obj} :
             /\ sessObjs'[s] = sessObjs[s]
             /\ s \in AllRegistered => s \in UNION {Registered(p)' : p \in PoolHandles}]_vars

\* C20: a CloseSession whose transport close fails returns that error and leaves the
\* session registry, the sessions and the session gauge as they were, so the id is
\* still registered
C20_FailedCloseKeepsSession ==
    [][(/\ last'.op = "CloseSession"
        /\ last'.id \in DOMAIN poolObjs[last'.pool].sessions
        /\ last'.err # NoErr)
       => /\ last'.err = "TransportFailure"
          /\ poolObjs' = poolObjs
          /\ sessObjs' = sessObjs
          /\ sessionGauge' = sessionGauge
          /\ last'.id \in DOMAIN poolObjs'[last'.pool].sessions]_vars

\* a CloseSession failed on the transport for a session that is registered and open
C20_Witness ==
    /\ last.op = "CloseSession"
    /\ last.err = "TransportFailure"
    /\ last.id \in DOMAIN poolObjs[last.pool].sessions
    /\ sessObjs[poolObjs[last.pool].sessions[last.id]].open
    /\ sessObjs[poolObjs[last.pool].sessions[last.id]].pc = "answered"

\* the registry map task t is inside an access of: the session map of a pool while it
\* assigns to it, the pool map while it assigns to it
InsideMap(t) ==
    IF tasks[t].pc = "assigning" THEN <<"sessions", tasks[t].pool>>
    ELSE IF tasks[t].pc = "passigning" THEN <<"pools", 0>>
    ELSE <<"none", 0>>

\* C14: the list a Pools call returned holds only names that are registered (no empty
\* placeholder) and every name that was registered when the call began (pools are
\* never removed, so those stayed registered throughout)
C14_PoolsSnapshot ==
    \A t \in Tasks :
        (tasks[t].op = "Pools" /\ tasks[t].pc = "done" /\ tasks[t].err = NoErr) =>
            /\ \A i \in 1..Len(tasks[t].ps) : tasks[t].ps[i] \in DOMAIN pools
            /\ \A name \in DOMAIN tasks[t].snap : \E i \in 1..Len(tasks[t].ps) : tasks[t].ps[i] = name

\* C15: no two tasks are inside an access of the same registry map at the same time
C15_RegistryMutualExclusion ==
    \A t, u \in Tasks :
        (t # u /\ InsideMap(t)[1] # "none") => InsideMap(t) # InsideMap(u)

\* the entries of the broadcast in flight other than the one whose send blocked have
\* all been visited: sent to, or skipped as not open or as the sender
OthersServed ==
    {bcast.order[j][2] : j \in 1..Len(bcast.order)} \ {bcast.blocked} \subseteq bcast.sent \cup bcast.skipped

\* C16: when a send of a broadcast blocks forever, the loop still reaches every other
\* entry of the broadcast and the OnMessage call returns
C16_BlockedSendIsolated ==
    (bcast.pc = "blocked") ~> (bcast.pc = "returned" /\ OthersServed)

\* C21: no step removes a name from the pool map or makes a name stand for another
\* Pool object, so "test" of NewManager and every name of a NewPool that succeeded
\* stay registered with their object; a NewPool that returned without error left its
\* name registered, and NewPool("test") returns DuplicateName
C21_PoolsPermanent ==
    [][/\ \A name \in DOMAIN pools : name \in DOMAIN pools' /\ pools'[name] = pools[name]
       /\ \A t \in Tasks :
             (tasks'[t].op = "NewPool" /\ tasks'[t].pc = "done") =>
                IF tasks'[t].name = "test" THEN tasks'[t].err = "DuplicateName"
                ELSE tasks'[t].err = NoErr => tasks'[t].name \in DOMAIN pools']_vars

====
